---- MODULE Spec2Model ----
(***************************************************************************)
(* logrecycler: the per-line pipeline of main.go (processLine), the label  *)
(* schema derivation (prometheusMetricLabels) and the metrics adapters.    *)
(*                                                                         *)
(* Go strings are TLA+ strings; s[i:j] is SubSeq.  A Go map is a function  *)
(* whose DOMAIN is the key set.  Iterating a Go map visits the keys in an  *)
(* unspecified order, so every `range` over a map is a choice among the    *)
(* permutations of its keys.                                               *)
(***************************************************************************)
EXTENDS Integers, Sequences, FiniteSets, TLC

(***************************************************************************)
(* Bounds of the model.                                                    *)
(***************************************************************************)
\* longest rule list (config.Patterns) a configuration holds
MaxRules == 2

(***************************************************************************)
(* Strings.                                                                *)
(***************************************************************************)
\* the character s[i-1] of Go, "" outside the string
Ch(s, i) == IF 1 <= i /\ i <= Len(s) THEN SubSeq(s, i, i) ELSE ""

Chars(s) == {Ch(s, i) : i \in 1..Len(s)}

Digit == {"0", "1", "2", "3", "4", "5", "6", "7", "8", "9"}

Lower == {"a", "b", "c", "d", "e", "f", "g", "h", "i", "j", "k", "l", "m",
          "n", "o", "p", "q", "r", "s", "t", "u", "v", "w", "x", "y", "z"}

Upper == {"A", "B", "C", "D", "E", "F", "G", "H", "I", "J", "K", "L", "M",
          "N", "O", "P", "Q", "R", "S", "T", "U", "V", "W", "X", "Y", "Z"}

\* the members of a regexp character class: \d, [a-z], [A-Z], \S, .
InClass(class, c) ==
    CASE class = "d" -> c \in Digit
      [] class = "a" -> c \in Lower
      [] class = "A" -> c \in Upper
      [] class = "S" -> c # " "
      [] OTHER       -> TRUE

\* number of leading characters of s[pos..] that belong to the class
RECURSIVE RunLen(_, _, _)
RunLen(class, s, pos) ==
    IF pos <= Len(s) /\ InClass(class, Ch(s, pos))
    THEN 1 + RunLen(class, s, pos + 1)
    ELSE 0

\* strconv.Atoi of a string of decimal digits
DigitVal(c) ==
    CASE c = "0" -> 0 [] c = "1" -> 1 [] c = "2" -> 2 [] c = "3" -> 3
      [] c = "4" -> 4 [] c = "5" -> 5 [] c = "6" -> 6 [] c = "7" -> 7
      [] c = "8" -> 8 [] c = "9" -> 9

RECURSIVE Atoi(_)
Atoi(s) ==
    IF s = "" THEN 0
    ELSE 10 * Atoi(SubSeq(s, 1, Len(s) - 1)) + DigitVal(Ch(s, Len(s)))

\* removal of cutset as one literal prefix (what strings.TrimPrefix does)
TrimPrefix(s, cutset) ==
    IF Len(s) >= Len(cutset) /\ SubSeq(s, 1, Len(cutset)) = cutset
    THEN SubSeq(s, Len(cutset) + 1, Len(s))
    ELSE s

\* strings.TrimLeft(s, cutset): drop every leading character of s that
\* occurs anywhere in cutset
RECURSIVE TrimLeftRun(_, _)
TrimLeftRun(s, cutset) ==
    IF s # "" /\ Ch(s, 1) \in Chars(cutset)
    THEN TrimLeftRun(SubSeq(s, 2, Len(s)), cutset)
    ELSE s

TrimLeft(s, cutset) == TrimLeftRun(s, cutset)

\* all orders in which the elements of a finite set can be visited
RECURSIVE Perms(_)
Perms(S) ==
    IF S = {} THEN {<<>>}
    ELSE UNION {{<<x>> \o p : p \in Perms(S \ {x})} : x \in S}

(***************************************************************************)
(* regexp.  A compiled pattern is [anchored, atoms]: an optional ^ and a   *)
(* sequence of atoms, each a literal text or a capture group ( CLASS+ ),   *)
(* ( CLASS* ) or ( CLASS+ )?, named or not.  In every pattern used here    *)
(* the text after a group cannot start inside the group's class, so the    *)
(* leftmost-first match of the regexp package is the greedy one computed   *)
(* below.                                                                  *)
(***************************************************************************)
Lit(text) == [kind |-> "lit", text |-> text]

\* (?P<name>CLASS+), or CLASS* with min 0; name "" is an unnamed group;
\* opt is a trailing ? on the group
Grp(name, class, min, opt) ==
    [kind |-> "grp", name |-> name, class |-> class, min |-> min, opt |-> opt]

Regexp(anchored, atoms) == [anchored |-> anchored, atoms |-> atoms]

NoMatch == <<>>

NoGroup == <<-1, -1>>

\* the groups of atoms matched at s[pos..]: [ok, end, caps], caps the
\* <<start, end>> pair of each group, NoGroup for a group that took no part
RECURSIVE MatchAtoms(_, _, _, _)
MatchAtoms(atoms, s, pos, caps) ==
    IF atoms = <<>> THEN [ok |-> TRUE, end |-> pos, caps |-> caps]
    ELSE LET a == Head(atoms) IN
         IF a.kind = "lit"
         THEN IF /\ pos + Len(a.text) - 1 <= Len(s)
                 /\ SubSeq(s, pos, pos + Len(a.text) - 1) = a.text
              THEN MatchAtoms(Tail(atoms), s, pos + Len(a.text), caps)
              ELSE [ok |-> FALSE, end |-> pos, caps |-> caps]
         ELSE LET n == RunLen(a.class, s, pos) IN
              IF n >= a.min /\ (n > 0 \/ ~a.opt)
              THEN MatchAtoms(Tail(atoms), s, pos + n,
                              Append(caps, <<pos, pos + n>>))
              ELSE IF a.opt
              THEN MatchAtoms(Tail(atoms), s, pos, Append(caps, NoGroup))
              ELSE [ok |-> FALSE, end |-> pos, caps |-> caps]

\* re.FindStringSubmatchIndex(s): NoMatch, or the <<start, end>> pairs of
\* the leftmost match, entry 1 the whole match (Go's index 0)
RECURSIVE FindFrom(_, _, _)
FindFrom(re, s, pos) ==
    LET m == MatchAtoms(re.atoms, s, pos, <<>>) IN
    IF m.ok THEN <<<<pos, m.end>>>> \o m.caps
    ELSE IF re.anchored \/ pos > Len(s) THEN NoMatch
    ELSE FindFrom(re, s, pos + 1)

FindStringSubmatchIndex(re, s) == FindFrom(re, s, 1)

\* re.FindStringSubmatch(s): the text of the match and of every group; a
\* group that took no part in the match yields ""
FindStringSubmatch(re, s) ==
    LET ix == FindStringSubmatchIndex(re, s) IN
    [i \in 1..Len(ix) |->
        IF ix[i] = NoGroup THEN "" ELSE SubSeq(s, ix[i][1], ix[i][2] - 1)]

\* re.SubexpNames(): entry 1 (Go's index 0) is the whole match and is
\* always ""; then one name per group, "" for an unnamed group
RECURSIVE GroupNames(_)
GroupNames(atoms) ==
    IF atoms = <<>> THEN <<>>
    ELSE IF Head(atoms).kind = "grp"
    THEN <<Head(atoms).name>> \o GroupNames(Tail(atoms))
    ELSE GroupNames(Tail(atoms))

SubexpNames(re) == <<"">> \o GroupNames(re.atoms)

(***************************************************************************)
(* glogRegex and glogLevels (main.go:50-56).                               *)
(***************************************************************************)
\* number of characters of the class that end at s[pos], scanning left
RECURSIVE RunLenBack(_, _, _)
RunLenBack(class, s, pos) ==
    IF pos >= 1 /\ InClass(class, Ch(s, pos))
    THEN 1 + RunLenBack(class, s, pos - 1)
    ELSE 0

IsDigits(s) == s # "" /\ \A i \in 1..Len(s) : Ch(s, i) \in Digit

\* glogRegex.FindStringSubmatch(s) for
\*   ^([IWEF])(\d{2})(\d{2}) (\d{2}):(\d{2}):(\d{2})\.\d+ \d+ \S+:\d+] 
\* entry 1 is the matched prefix (Go's match[0]), entries 2..7 the groups.
\* The token \S+:\d+] is followed by a space, so it is the whole run of
\* non-space characters after the process id: it ends in ], has digits
\* before the ], a colon before the digits and a character before the colon.
GlogFind(s) ==
    LET frac == RunLen("d", s, 16)
        pid  == RunLen("d", s, 17 + frac)
        tok  == 18 + frac + pid
        last == tok + RunLen("S", s, tok) - 1
        line == RunLenBack("d", s, last - 1)
    IN  IF /\ Len(s) >= 15
           /\ Ch(s, 1) \in {"I", "W", "E", "F"}
           /\ IsDigits(SubSeq(s, 2, 5))
           /\ Ch(s, 6) = " "
           /\ IsDigits(SubSeq(s, 7, 8))
           /\ Ch(s, 9) = ":"
           /\ IsDigits(SubSeq(s, 10, 11))
           /\ Ch(s, 12) = ":"
           /\ IsDigits(SubSeq(s, 13, 14))
           /\ Ch(s, 15) = "."
           /\ frac >= 1
           /\ Ch(s, 16 + frac) = " "
           /\ pid >= 1
           /\ Ch(s, 17 + frac + pid) = " "
           /\ last >= tok
           /\ Ch(s, last) = "]"
           /\ Ch(s, last + 1) = " "
           /\ line >= 1
           /\ Ch(s, last - 1 - line) = ":"
           /\ last - 1 - line > tok
        THEN <<SubSeq(s, 1, last + 1), Ch(s, 1), SubSeq(s, 2, 3),
               SubSeq(s, 4, 5), SubSeq(s, 7, 8), SubSeq(s, 10, 11),
               SubSeq(s, 13, 14)>>
        ELSE NoMatch

glogLevelsSwapped(code) ==
    CASE code = "I" -> "INFO"
      [] code = "W" -> "ERROR"
      [] code = "E" -> "WARN"
      [] code = "F" -> "FATAL"

glogLevels(code) ==
    CASE code = "I" -> "INFO"
      [] code = "W" -> "WARN"
      [] code = "E" -> "ERROR"
      [] code = "F" -> "FATAL"

(***************************************************************************)
(* package time: time.Date normalises its arguments into a calendar date,  *)
(* Format(time.RFC3339) renders it.  Times are in UTC.                     *)
(***************************************************************************)
IsLeap(y) == y % 4 = 0 /\ (y % 100 # 0 \/ y % 400 = 0)

DaysIn(y, m) ==
    IF m = 2 THEN (IF IsLeap(y) THEN 29 ELSE 28)
    ELSE IF m \in {4, 6, 9, 11} THEN 30 ELSE 31

\* a day below 1 or past the end of the month moves into the neighbouring
\* months
RECURSIVE NormDay(_, _, _)
NormDay(y, m, d) ==
    IF d < 1
    THEN LET py == IF m = 1 THEN y - 1 ELSE y
             pm == IF m = 1 THEN 12 ELSE m - 1
         IN  NormDay(py, pm, d + DaysIn(py, pm))
    ELSE IF d > DaysIn(y, m)
    THEN NormDay(IF m = 12 THEN y + 1 ELSE y, IF m = 12 THEN 1 ELSE m + 1,
                 d - DaysIn(y, m))
    ELSE [year |-> y, month |-> m, day |-> d]

\* a time.Time with these calendar fields, in UTC
Instant(year, month, day, hour, min, sec) ==
    [year |-> year, month |-> month, day |-> day,
     hour |-> hour, min |-> min, sec |-> sec]

\* time.Date(year, month, day, hour, min, sec, 0, time.UTC), for arguments
\* that are not negative
Date(year, month, day, hour, min, sec) ==
    LET m0 == month - 1
        y1 == year + (m0 \div 12)
        m1 == (m0 % 12) + 1
        mi == min + (sec \div 60)
        h  == hour + (mi \div 60)
        d  == day + (h \div 24)
        ymd == NormDay(y1, m1, d)
    IN  [year |-> ymd.year, month |-> ymd.month, day |-> ymd.day,
         hour |-> h % 24, min |-> mi % 60, sec |-> sec % 60]

Pad2(n) == IF n < 10 THEN "0" \o ToString(n) ELSE ToString(n)

\* t.Format(timeFormat), timeFormat = time.RFC3339, for a four-digit year
Format(t) ==
    ToString(t.year) \o "-" \o Pad2(t.month) \o "-" \o Pad2(t.day) \o "T"
        \o Pad2(t.hour) \o ":" \o Pad2(t.min) \o ":" \o Pad2(t.sec) \o "Z"

\* the instants time.Now() may return
Clock ==
    {Instant(2023, 12, 31, 23, 59, 58), Instant(2024, 3, 1, 8, 0, 0)}

(***************************************************************************)
(* OrderedMap: the record of one line.  keys is the insertion order that   *)
(* ToJson follows, values the map that main.go also reads and writes       *)
(* directly (log.values[k]).                                               *)
(***************************************************************************)
NewOrderedMap == [keys |-> <<>>, values |-> [k \in {} |-> ""]]

Has(m, k) == k \in DOMAIN m

\* a Go map store m[k] = v
Store(m, k, v) == [x \in DOMAIN m \cup {k} |-> IF x = k THEN v ELSE m[x]]

\* log.Set(key, value): append the key when it is new, overwrite in place
\* when it is present
Set(log, key, value) ==
    [keys   |-> IF Has(log.values, key) THEN log.keys
                ELSE Append(log.keys, key),
     values |-> Store(log.values, key, value)]

\* log.values[key] = value, bypassing Set
SetValue(log, key, value) ==
    [log EXCEPT !.values = Store(log.values, key, value)]

\* log.values[key]: the zero value "" when the key is absent
Get(log, key) == IF Has(log.values, key) THEN log.values[key] ELSE ""

RECURSIVE JsonFields(_, _)
JsonFields(log, i) ==
    IF i > Len(log.keys) THEN ""
    ELSE (IF i > 1 THEN "," ELSE "")
         \o "\"" \o log.keys[i] \o "\":\"" \o Get(log, log.keys[i]) \o "\""
         \o JsonFields(log, i + 1)

\* log.ToJson(): the fields in insertion order
ToJson(log) == "{" \o JsonFields(log, 1) \o "}"

(***************************************************************************)
(* Helpers of main.go.                                                     *)
(***************************************************************************)
Contains(seq, x) == \E i \in 1..Len(seq) : seq[i] = x

\* a dedupe that only drops a repeat of the entry just before it
RECURSIVE uniqueAdjacent(_)
uniqueAdjacent(input) ==
    IF Len(input) <= 1 THEN input
    ELSE LET rest == uniqueAdjacent(Tail(input)) IN
         IF Head(input) = Head(rest) THEN rest ELSE <<Head(input)>> \o rest

RECURSIVE uniqueFrom(_, _)
uniqueFrom(input, out) ==
    IF input = <<>> THEN out
    ELSE IF Contains(out, Head(input)) THEN uniqueFrom(Tail(input), out)
    ELSE uniqueFrom(Tail(input), Append(out, Head(input)))

\* unique(input): the first occurrence of every entry, in order
unique(input) == uniqueFrom(input, <<>>)

\* removeElement(haystack, needle): every occurrence removed, order kept
removeElement(haystack, needle) ==
    SelectSeq(haystack, LAMBDA item : item # needle)

\* keys(mymap): the keys in map iteration order, which Go leaves
\* unspecified: every order is a possible result
keys(mymap) == Perms(DOMAIN mymap)

\* prometheusAddCaptures(re, labels)
prometheusAddCaptures(re, labels) ==
    labels \o SelectSeq(SubexpNames(re), LAMBDA name : name # "")

\* the loop of prometheusMetricLabels over config.Patterns: the label
\* lists it can build, one per iteration order of the Add maps
RECURSIVE PatternLabels(_, _)
PatternLabels(patterns, labels) ==
    IF patterns = <<>> THEN {labels}
    ELSE LET pattern == Head(patterns) IN
         IF pattern.Discard THEN PatternLabels(Tail(patterns), labels)
         ELSE UNION {PatternLabels(Tail(patterns),
                         prometheusAddCaptures(pattern.regexParsed, labels) \o ks)
                     : ks \in keys(pattern.Add)}

\* prometheusMetricLabels(config): the lists one call can return
prometheusMetricLabels(config) ==
    LET l1 == IF config.levelKeySet THEN <<config.LevelKey>> ELSE <<>>
        l2 == IF config.preprocessSet
              THEN prometheusAddCaptures(config.preprocessParsed, l1)
              ELSE l1
    IN  {removeElement(unique(labels), config.MessageKey)
         : labels \in PatternLabels(config.Patterns, l2)}

\* the empty pattern string: Preprocess left out of the configuration
NoRegexp == Regexp(FALSE, <<>>)

\* readConfig(): the configurations it can return for the parsed yaml
readConfig(yaml) ==
    LET c == [MessageKey       |-> IF yaml.MessageKey = "" THEN "message"
                                   ELSE yaml.MessageKey,
              Patterns         |-> [i \in 1..Len(yaml.Patterns) |->
                                    [regexParsed |-> yaml.Patterns[i].Regex,
                                     Discard     |-> yaml.Patterns[i].Discard,
                                     Add         |-> yaml.Patterns[i].Add,
                                     Level       |-> yaml.Patterns[i].Level,
                                     levelSet    |-> yaml.Patterns[i].Level # ""]],
              TimestampKey     |-> yaml.TimestampKey,
              timestampKeySet  |-> yaml.TimestampKey # "",
              LevelKey         |-> yaml.LevelKey,
              levelKeySet      |-> yaml.LevelKey # "",
              glogSet          |-> yaml.Glog # "",
              preprocessSet    |-> yaml.Preprocess # NoRegexp,
              preprocessParsed |-> yaml.Preprocess,
              prometheus       |-> yaml.PrometheusPort # "",
              statsd           |-> yaml.StatsdAddress # "",
              StatsdMetric     |-> yaml.StatsdMetric,
              prometheusMetricLabels |-> <<>>]
    IN  {[c EXCEPT !.prometheusMetricLabels = labels]
         : labels \in prometheusMetricLabels(c)}

\* a values array that leaves out the labels the record does not hold
prometheusLabelValuesFound(labelMap, config) ==
    LET found == SelectSeq(config.prometheusMetricLabels,
                           LAMBDA label : Has(labelMap, label))
    IN  [i \in 1..Len(found) |-> labelMap[found[i]]]

\* prometheusLabelValues(labelMap, config)
prometheusLabelValues(labelMap, config) ==
    [i \in 1..Len(config.prometheusMetricLabels) |->
        IF Has(labelMap, config.prometheusMetricLabels[i])
        THEN labelMap[config.prometheusMetricLabels[i]]
        ELSE ""]

\* statsdTags(m, config): one tag per field except the message.  The slice
\* follows the map's iteration order; the model keeps the tags as a set.
statsdTags(m, config) ==
    {k \o ":" \o m[k] : k \in DOMAIN m \ {config.MessageKey}}

\* storeCaptures that reads match[i-1] for group i
RECURSIVE storeCapturesShiftedFrom(_, _, _, _)
storeCapturesShiftedFrom(names, log, match, i) ==
    IF i > Len(names) THEN log
    ELSE storeCapturesShiftedFrom(names,
             IF i # 1 /\ names[i] # "" THEN Set(log, names[i], match[i - 1])
             ELSE log,
             match, i + 1)

storeCapturesShifted(re, log, match) ==
    storeCapturesShiftedFrom(SubexpNames(re), log, match, 1)

RECURSIVE storeCapturesFrom(_, _, _, _)
storeCapturesFrom(names, log, match, i) ==
    IF i > Len(names) THEN log
    ELSE storeCapturesFrom(names,
             IF i # 1 /\ names[i] # "" THEN Set(log, names[i], match[i])
             ELSE log,
             match, i + 1)

\* storeCaptures(re, log, match): index i of Go is entry i + 1 here
storeCaptures(re, log, match) ==
    storeCapturesFrom(SubexpNames(re), log, match, 1)

(***************************************************************************)
(* processLine (main.go:260-333), one operator per block of the function.  *)
(***************************************************************************)
\* lines 262-269: the default fields; now is the result of time.Now()
SeedLog(config, line, now) ==
    LET l1 == IF config.timestampKeySet
              THEN Set(NewOrderedMap, config.TimestampKey, Format(now))
              ELSE NewOrderedMap
        l2 == IF config.levelKeySet THEN Set(l1, config.LevelKey, "INFO")
              ELSE l1
    IN  Set(l2, config.MessageKey, line)

\* lines 272-276: the preprocessing pattern
Preprocessed(config, log) ==
    IF config.preprocessSet
    THEN LET match == FindStringSubmatch(config.preprocessParsed,
                                         Get(log, config.MessageKey))
         IN  IF match # NoMatch
             THEN storeCaptures(config.preprocessParsed, log, match)
             ELSE log
    ELSE log

\* line 280: the match of glogRegex, NoMatch also when glog is off
GlogMatch(config, log) ==
    IF config.glogSet THEN GlogFind(Get(log, config.MessageKey)) ELSE NoMatch

\* lines 281-299 for a match m; year is time.Now().Year()
GlogParsed(config, log, m, year) ==
    LET l1 == SetValue(log, config.MessageKey,
                       TrimLeft(Get(log, config.MessageKey), m[1]))
        l2 == IF config.levelKeySet
              THEN SetValue(l1, config.LevelKey, glogLevels(m[2]))
              ELSE l1
        date == Date(year, Atoi(m[3]), Atoi(m[4]), Atoi(m[5]), Atoi(m[6]),
                     Atoi(m[7]))
    IN  IF config.timestampKeySet
        THEN SetValue(l2, config.TimestampKey, Format(date))
        ELSE l2

\* lines 319-321: log.Set(k, v) for the keys of Add in the order ks
RECURSIVE AddFields(_, _, _)
AddFields(log, add, ks) ==
    IF ks = <<>> THEN log
    ELSE AddFields(Set(log, Head(ks), add[Head(ks)]), add, Tail(ks))

\* the rule loop without its break: every matching rule is applied
RECURSIVE PatternLoopNoBreak(_, _, _)
PatternLoopNoBreak(patterns, config, log) ==
    IF patterns = <<>> THEN {[discard |-> FALSE, log |-> log]}
    ELSE LET pattern == Head(patterns)
             match == FindStringSubmatch(pattern.regexParsed,
                                         Get(log, config.MessageKey))
         IN  IF match = NoMatch
             THEN PatternLoopNoBreak(Tail(patterns), config, log)
             ELSE IF pattern.Discard THEN {[discard |-> TRUE, log |-> log]}
             ELSE LET l1 == IF pattern.levelSet
                            THEN SetValue(log, config.LevelKey, pattern.Level)
                            ELSE log
                      l2 == storeCaptures(pattern.regexParsed, l1, match)
                  IN  UNION {PatternLoopNoBreak(Tail(patterns), config,
                                                AddFields(l2, pattern.Add, ks))
                             : ks \in keys(pattern.Add)}

ApplyPatternsNoBreak(patterns, config, log) ==
    PatternLoopNoBreak(patterns, config, log)

\* the rule loop in which a discard rule only skips itself
RECURSIVE PatternLoopSkipDiscard(_, _, _)
PatternLoopSkipDiscard(patterns, config, log) ==
    IF patterns = <<>> THEN {[discard |-> FALSE, log |-> log]}
    ELSE LET pattern == Head(patterns)
             match == FindStringSubmatch(pattern.regexParsed,
                                         Get(log, config.MessageKey))
         IN  IF match = NoMatch \/ pattern.Discard
             THEN PatternLoopSkipDiscard(Tail(patterns), config, log)
             ELSE LET l1 == IF pattern.levelSet
                            THEN SetValue(log, config.LevelKey, pattern.Level)
                            ELSE log
                      l2 == storeCaptures(pattern.regexParsed, l1, match)
                  IN  {[discard |-> FALSE, log |-> AddFields(l2, pattern.Add, ks)]
                       : ks \in keys(pattern.Add)}

ApplyPatternsSkipDiscard(patterns, config, log) ==
    PatternLoopSkipDiscard(patterns, config, log)

\* lines 304-325: the outcomes of the rule loop, one per iteration order
\* of the Add map of the rule that fires; discard is the return of line 307
RECURSIVE PatternLoop(_, _, _)
PatternLoop(patterns, config, log) ==
    IF patterns = <<>> THEN {[discard |-> FALSE, log |-> log]}
    ELSE LET pattern == Head(patterns)
             match == FindStringSubmatch(pattern.regexParsed,
                                         Get(log, config.MessageKey))
         IN  IF match = NoMatch
             THEN PatternLoop(Tail(patterns), config, log)
             ELSE IF pattern.Discard THEN {[discard |-> TRUE, log |-> log]}
             ELSE LET l1 == IF pattern.levelSet
                            THEN SetValue(log, config.LevelKey, pattern.Level)
                            ELSE log
                      l2 == storeCaptures(pattern.regexParsed, l1, match)
                  IN  {[discard |-> FALSE, log |-> AddFields(l2, pattern.Add, ks)]
                       : ks \in keys(pattern.Add)}

ApplyPatterns(patterns, config, log) == PatternLoop(patterns, config, log)

(***************************************************************************)
(* State.                                                                  *)
(***************************************************************************)
VARIABLES
    config,     \* the *Config that readConfig returned
    metric,     \* the CounterVec of main: nil, or its registered label names
    stdin,      \* the lines the input stream may deliver
    pc,         \* position in main and processLine
    line,       \* the line being processed
    log,        \* the OrderedMap of the line being processed
    match,      \* the glog match of line 280
    year,       \* the year of line 291
    incs,       \* value arrays of the counter increments made for the line
    tagCalls,   \* tag sets of the statsd increments made for the line
    stdout      \* what was printed for the line

vars == <<config, metric, stdin, pc, line, log, match, year, incs, tagCalls,
          stdout>>

NilMetric == [nil |-> TRUE, labels |-> <<>>]

(***************************************************************************)
(* The configurations and input lines explored.                            *)
(***************************************************************************)
NoAdd == [k \in {} |-> ""]

\* regex: 'health'
reHealth == Regexp(FALSE, <<Lit("health")>>)

\* regex: 'error'
reError == Regexp(FALSE, <<Lit("error")>>)

\* regex: '^hello'
reHello == Regexp(TRUE, <<Lit("hello")>>)

\* regex: '([a-z]+)=(?P<status>\d+)'
reStatus ==
    Regexp(FALSE, <<Grp("", "a", 1, FALSE), Lit("="),
                    Grp("status", "d", 1, FALSE)>>)

\* regex: 'code(?P<code>\d+)?'
reCode == Regexp(FALSE, <<Lit("code"), Grp("code", "d", 1, TRUE)>>)

\* preprocess: '^\[(?P<pod>[a-z]+)\] (?P<message>.*)'
rePod ==
    Regexp(TRUE, <<Lit("["), Grp("pod", "a", 1, FALSE), Lit("] "),
                   Grp("message", ".", 0, FALSE)>>)

\* preprocess: '^(?P<level>[A-Z]+)?'
reLevel == Regexp(TRUE, <<Grp("level", "A", 1, TRUE)>>)

Rule(regex, discard, add, level) ==
    [Regex |-> regex, Discard |-> discard, Add |-> add, Level |-> level]

RulePool ==
    {Rule(reHealth, TRUE, [k \in {"noise"} |-> "yes"], ""),
     Rule(reError, FALSE, NoAdd, "ERROR"),
     Rule(reHello, FALSE, [k \in {"app", "kind"} |-> "demo"], "DEBUG"),
     Rule(reStatus, FALSE, [k \in {"kind"} |-> "http"], ""),
     Rule(reCode, FALSE, [k \in {"level"} |-> "WARN"], "")}

\* the rule lists of at most n rules
RECURSIVE RuleLists(_)
RuleLists(n) ==
    IF n = 0 THEN {<<>>}
    ELSE RuleLists(n - 1)
         \cup {Append(l, r) : l \in {x \in RuleLists(n - 1) : Len(x) = n - 1},
                              r \in RulePool}

Yaml(port, addr, glog, ts, level, msg, pre, rules) ==
    [PrometheusPort |-> port, StatsdAddress |-> addr, StatsdMetric |-> "logs",
     Glog |-> glog, TimestampKey |-> ts, LevelKey |-> level,
     MessageKey |-> msg, Preprocess |-> pre, Patterns |-> rules]

\* every rule list under every choice of metrics backends, with the keys
\* and the detector fixed
YamlsByRules ==
    {Yaml(port, addr, "simple", "ts", "level", "", NoRegexp, rules) :
        port \in {"", "9090"}, addr \in {"", "127.0.0.1:8125"},
        rules \in RuleLists(MaxRules)}

\* every choice of keys, detector and preprocessing pattern, with at most
\* one rule and both backends
YamlsByKeys ==
    {Yaml("9090", "127.0.0.1:8125", glog, ts, level, "", pre, rules) :
        glog \in {"", "simple"}, ts \in {"", "ts"},
        level \in {"", "level", "message"},
        pre \in {NoRegexp, rePod, reLevel},
        rules \in RuleLists(1)}

\* every configuration file of the two families above and their product
YamlsAll ==
    {Yaml(port, "", glog, "", level, msg, pre, rules) :
        port \in {"", "9090"}, glog \in {"", "simple"},
        level \in {"", "level", "message", "status"},
        msg \in {"", "kind"},
        pre \in {NoRegexp, rePod, reLevel},
        rules \in RuleLists(MaxRules)}

\* with the detector, a level key and a timestamp key
YamlsGlog ==
    {Yaml("9090", "127.0.0.1:8125", "simple", "ts", "level", "", pre, <<>>) :
        pre \in {NoRegexp, reLevel}}

\* lines with the fixed-format prefix: every severity letter, and two-digit
\* fields inside and outside the calendar
GlogLines ==
    {"I0512 10:30:01.123456 123 file.go:10] hello"}
    \cup {sev \o mo \o dd \o " " \o hh \o ":" \o mi \o ":" \o ss \o ".5 1 a.go:1] x" :
            sev \in {"I", "W", "E", "F"},
            mo \in {"00", "01", "02", "04", "12", "13"},
            dd \in {"00", "01", "28", "29", "30", "31"},
            hh \in {"00", "23", "24"},
            mi \in {"59", "60"},
            ss \in {"59", "99"}}

Lines ==
    {"I0512 10:30:01.123456 123 file.go:10] hello",
     "I0512 10:30:01.123456 123 file.go:10] file not found",
     "E1301 24:60:61.5 1 a.go:1] error status=500",
     "W0229 23:59:59.000001 7 x.go:2] health check",
     "F0000 00:00:00.0 0 m.go:9] code7",
     "error status=500",
     "hello error",
     "health check error",
     "[web] error code",
     "[web] W0512 10:30:01.1 1 f.go:1] hello status=200",
     "WARN disk full",
     ""}

(***************************************************************************)
(* main (main.go:59-97) and processLine as a state machine.                *)
(***************************************************************************)
InitWith(yamls, lines) ==
    /\ config \in UNION {readConfig(y) : y \in yamls}
    /\ metric = NilMetric
    /\ stdin = lines
    /\ pc = "main"
    /\ line = ""
    /\ log = NewOrderedMap
    /\ match = NoMatch
    /\ year = 0
    /\ incs = <<>>
    /\ tagCalls = <<>>
    /\ stdout = <<>>

Init == InitWith(YamlsByRules \cup YamlsByKeys, Lines)

\* main.go:64-90: register the counter when prometheus is enabled
Main ==
    /\ pc = "main"
    /\ IF config.prometheus
       THEN \E labels \in prometheusMetricLabels(config) :
                metric' = [nil |-> FALSE, labels |-> labels]
       ELSE metric' = metric
    /\ pc' = "scan"
    /\ UNCHANGED <<config, stdin, line, log, match, year, incs, tagCalls, stdout>>

\* main.go:93-95: the scanner delivers a line and processLine is entered
Scan ==
    /\ pc = "scan"
    /\ \E l \in stdin : line' = l
    /\ pc' = "seed"
    /\ UNCHANGED <<config, metric, stdin, log, match, year, incs, tagCalls,
                   stdout>>

\* main.go:95-93: processLine has returned, its record is dropped and the
\* loop asks for the next line
Return ==
    /\ pc = "returned"
    /\ line' = ""
    /\ log' = NewOrderedMap
    /\ match' = NoMatch
    /\ year' = 0
    /\ incs' = <<>>
    /\ tagCalls' = <<>>
    /\ stdout' = <<>>
    /\ pc' = "scan"
    /\ UNCHANGED <<config, metric, stdin>>

\* main.go:93, 97: the input ends and main returns
Eof ==
    /\ pc = "scan"
    /\ pc' = "exit"
    /\ UNCHANGED <<config, metric, stdin, line, log, match, year, incs,
                   tagCalls, stdout>>

\* main.go:262-269
Seed ==
    /\ pc = "seed"
    /\ \E now \in (IF config.timestampKeySet THEN Clock
                   ELSE {Instant(0, 0, 0, 0, 0, 0)}) :
           log' = SeedLog(config, line, now)
    /\ pc' = "preprocess"
    /\ UNCHANGED <<config, metric, stdin, line, match, year, incs, tagCalls,
                   stdout>>

\* main.go:272-276
Preprocess ==
    /\ pc = "preprocess"
    /\ log' = Preprocessed(config, log)
    /\ pc' = "glog"
    /\ UNCHANGED <<config, metric, stdin, line, match, year, incs, tagCalls,
                   stdout>>

\* main.go:279-301
Glog ==
    /\ pc = "glog"
    /\ match' = GlogMatch(config, log)
    /\ IF match' # NoMatch
       THEN \E now \in (IF config.timestampKeySet THEN Clock
                        ELSE {Instant(0, 0, 0, 0, 0, 0)}) :
                /\ year' = now.year
                /\ log' = GlogParsed(config, log, match', now.year)
       ELSE UNCHANGED <<log, year>>
    /\ pc' = "rules"
    /\ UNCHANGED <<config, metric, stdin, line, incs, tagCalls, stdout>>

\* main.go:304-325: the rule loop; a discard returns from processLine
Rules ==
    /\ pc = "rules"
    /\ \E r \in ApplyPatterns(config.Patterns, config, log) :
           /\ log' = r.log
           /\ pc' = IF r.discard THEN "returned" ELSE "emit"
    /\ UNCHANGED <<config, metric, stdin, line, match, year, incs, tagCalls,
                   stdout>>

\* main.go:326-332: WithLabelValues panics when the number of values is
\* not the number of registered labels
Emit ==
    /\ pc = "emit"
    /\ LET values == prometheusLabelValues(log.values, config) IN
       IF config.prometheus /\ (metric.nil \/ Len(values) # Len(metric.labels))
       THEN /\ pc' = "panic"
            /\ UNCHANGED <<incs, tagCalls, stdout>>
       ELSE /\ incs' = IF config.prometheus THEN Append(incs, values) ELSE incs
            /\ tagCalls' = IF config.statsd
                           THEN Append(tagCalls, statsdTags(log.values, config))
                           ELSE tagCalls
            /\ stdout' = Append(stdout, ToJson(log))
            /\ pc' = "returned"
    /\ UNCHANGED <<config, metric, stdin, line, log, match, year>>

Next ==
    \/ Main
    \/ Scan
    \/ Eof
    \/ Seed
    \/ Preprocess
    \/ Glog
    \/ Rules
    \/ Emit
    \/ Return

Spec == Init /\ [][Next]_vars

\* the derivation of the label schema alone, over every configuration file
InitSchema == InitWith(YamlsAll, Lines)

SpecSchema == InitSchema /\ [][Main]_vars

\* the pipeline over lines that carry the fixed-format prefix, with the
\* detector, a level key and a timestamp key configured
InitGlog == InitWith(YamlsGlog, GlogLines)

SpecGlog == InitGlog /\ [][Next]_vars

(***************************************************************************)
(* Vocabulary of the properties.                                           *)
(***************************************************************************)
Message(l) == Get(l, config.MessageKey)

NoOutput == stdout = <<>> /\ incs = <<>> /\ tagCalls = <<>>

\* processLine has returned for the current line
Returned == pc = "returned"

\* the first rule, in configured order, whose pattern matches s; 0 if none
FirstMatch(s) ==
    LET hits == {i \in 1..Len(config.Patterns) :
                    FindStringSubmatch(config.Patterns[i].regexParsed, s) # NoMatch}
    IN  IF hits = {} THEN 0 ELSE CHOOSE i \in hits : \A j \in hits : i <= j

\* positions (in SubexpNames) of the groups of re named n
GroupsNamed(re, n) == {i \in 2..Len(SubexpNames(re)) : SubexpNames(re)[i] = n}

GroupNameSet(re) == {SubexpNames(re)[i] : i \in 2..Len(SubexpNames(re))} \ {""}

Last(S) == CHOOSE i \in S : \A j \in S : j <= i

\* the text captured under name n by the match of re in s
Captured(re, s, n) == FindStringSubmatch(re, s)[Last(GroupsNamed(re, n))]

\* the fields a record holds after rule number i alone has acted on l
RuleEffect(i, l) ==
    LET rule == config.Patterns[i]
        names == GroupNameSet(rule.regexParsed)
        level == IF rule.levelSet THEN {config.LevelKey} ELSE {}
    IN  [k \in DOMAIN l.values \cup names \cup DOMAIN rule.Add \cup level |->
            IF k \in DOMAIN rule.Add THEN rule.Add[k]
            ELSE IF k \in names THEN Captured(rule.regexParsed, Message(l), k)
            ELSE IF k \in level THEN rule.Level
            ELSE l.values[k]]

(***************************************************************************)
(* C1.  The rule loop applies the level, the named captures and the static *)
(* additions of at most one rule, the first whose pattern matches the      *)
(* message value; the record shows no effect of any later rule, and is     *)
(* unchanged when no rule matches or the first match discards.             *)
(***************************************************************************)
C1_FirstMatchWins ==
    [][pc = "rules" =>
          LET i == FirstMatch(Message(log)) IN
          IF i = 0 \/ config.Patterns[i].Discard THEN log' = log
          ELSE log'.values = RuleEffect(i, log)]_vars

\* two rules match the line hello error; only the first one left its mark
C1_Witness ==
    /\ pc = "emit"
    /\ line = "hello error"
    /\ Len(config.Patterns) = 2
    /\ config.Patterns[1].regexParsed = reHello
    /\ config.Patterns[2].regexParsed = reError
    /\ Get(log, "level") = "DEBUG"
    /\ Get(log, "app") = "demo"

(***************************************************************************)
(* C2.  A line either prints exactly one record and increments each        *)
(* enabled backend exactly once, or prints and increments nothing; the     *)
(* second happens exactly when the first matching rule has discard set.    *)
(***************************************************************************)
C2_Outputs ==
    /\ pc \in {"scan", "seed", "preprocess", "glog", "rules", "emit"} => NoOutput
    /\ Returned =>
          \/ NoOutput
          \/ /\ Len(stdout) = 1
             /\ Len(incs) = (IF config.prometheus THEN 1 ELSE 0)
             /\ Len(tagCalls) = (IF config.statsd THEN 1 ELSE 0)
    /\ pc # "panic"

C2_Step ==
    /\ pc = "rules" =>
          LET i == FirstMatch(Message(log)) IN
          IF i # 0 /\ config.Patterns[i].Discard
          THEN pc' = "returned" /\ NoOutput'
          ELSE pc' = "emit"
    /\ pc = "emit" => pc' = "returned" /\ stdout' = <<ToJson(log)>>

\* C2: one record and one increment per enabled backend, or nothing at all,
\* the latter exactly when the first matching rule discards
C2_OneRecordOrNone == []C2_Outputs /\ [][C2_Step]_vars

\* a discarded line although a later rule matches it too
C2_Witness ==
    /\ Returned
    /\ NoOutput
    /\ line = "health check error"
    /\ config.prometheus
    /\ config.statsd
    /\ Len(config.Patterns) = 2
    /\ config.Patterns[1].Discard
    /\ config.Patterns[2].regexParsed = reError

(***************************************************************************)
(* C3.  The list prometheusMetricLabels returns never contains the message *)
(* key and never contains a name twice: for the list readConfig stores and *)
(* for the list the counter is registered with.                            *)
(***************************************************************************)
NoMessageNoRepeat(labels) ==
    /\ ~Contains(labels, config.MessageKey)
    /\ \A i, j \in 1..Len(labels) : labels[i] = labels[j] => i = j

C3_LabelsClean ==
    /\ NoMessageNoRepeat(config.prometheusMetricLabels)
    /\ NoMessageNoRepeat(metric.labels)

\* the level key repeats a capture name, the message key is an Add key
C3_Witness ==
    /\ pc = "scan"
    /\ ~metric.nil
    /\ config.MessageKey = "kind"
    /\ config.LevelKey = "status"
    /\ config.preprocessParsed = rePod
    /\ Len(config.Patterns) = 2
    /\ config.Patterns[1].regexParsed = reHello
    /\ config.Patterns[2].regexParsed = reStatus
    /\ metric.labels = <<"status", "pod", "message", "app">>

(***************************************************************************)
(* C4.  Deriving the label schema twice from one configuration yields the  *)
(* same sequence: the list the counter is registered with in main is the   *)
(* list readConfig stored.                                                 *)
(***************************************************************************)
C4_SameSchemaTwice ==
    ~metric.nil => metric.labels = config.prometheusMetricLabels

(***************************************************************************)
(* C5.  For a line that is not discarded the value array handed to the     *)
(* counter has one entry per name of the stored label schema, entry i the  *)
(* record's value for name i, or "" when the record has no such field.     *)
(***************************************************************************)
C5_ValuesFollowSchema ==
    /\ pc # "panic"
    /\ (Returned /\ stdout # <<>> /\ config.prometheus) =>
          /\ Len(incs) = 1
          /\ Len(incs[1]) = Len(config.prometheusMetricLabels)
          /\ \A i \in 1..Len(config.prometheusMetricLabels) :
                LET name == config.prometheusMetricLabels[i] IN
                incs[1][i] = IF name \in DOMAIN log.values
                             THEN log.values[name] ELSE ""

\* a record with a field outside the schema and without one of its labels
C5_Witness ==
    /\ Returned
    /\ Len(incs) = 1
    /\ Len(incs[1]) = 3
    /\ \E i \in 1..3 : config.prometheusMetricLabels[i] \notin DOMAIN log.values
    /\ \E i \in 1..3 : incs[1][i] # ""
    /\ Len(log.keys) = 3

(***************************************************************************)
(* C6.  When the fixed-format detector matches, with a level key and a     *)
(* timestamp key configured, the level becomes the canonical name of the   *)
(* severity letter and the timestamp carries the current year and the      *)
(* month, day, hour, minute and second written in the matched prefix.      *)
(***************************************************************************)
CanonicalLevel(letter) ==
    IF letter = "I" THEN "INFO"
    ELSE IF letter = "W" THEN "WARN"
    ELSE IF letter = "E" THEN "ERROR"
    ELSE "FATAL"

\* the timestamp that shows the fields of the prefix of s as written
StampAsWritten(y, s) ==
    ToString(y) \o "-" \o SubSeq(s, 2, 3) \o "-" \o SubSeq(s, 4, 5) \o "T"
        \o SubSeq(s, 7, 8) \o ":" \o SubSeq(s, 10, 11) \o ":"
        \o SubSeq(s, 13, 14) \o "Z"

\* the fields of the prefix of s name a date and time of year y
ValidStamp(y, s) ==
    /\ Atoi(SubSeq(s, 2, 3)) \in 1..12
    /\ Atoi(SubSeq(s, 4, 5)) \in 1..DaysIn(y, Atoi(SubSeq(s, 2, 3)))
    /\ Atoi(SubSeq(s, 7, 8)) \in 0..23
    /\ Atoi(SubSeq(s, 10, 11)) \in 0..59
    /\ Atoi(SubSeq(s, 13, 14)) \in 0..59

GlogFieldsSet(valid) ==
    (/\ pc = "glog"
     /\ match' # NoMatch
     /\ config.levelKeySet
     /\ config.timestampKeySet
     /\ valid)
    => /\ Get(log', config.LevelKey) = CanonicalLevel(Ch(Message(log), 1))
       /\ Get(log', config.TimestampKey) = StampAsWritten(year', Message(log))

\* C6 as stated: level and timestamp fields as written, for every two-digit
\* value the detector accepts
C6_EveryTwoDigitValue == [][GlogFieldsSet(TRUE)]_vars

\* C6 for the prefixes that name a date and time of the current year, the
\* level key and the timestamp key being different keys: the level is the
\* canonical name and the timestamp shows the fields as written
C6_ValidDateTime ==
    [][GlogFieldsSet(/\ ValidStamp(year', Message(log))
                     /\ config.LevelKey # config.TimestampKey)]_vars

\* the example line of the specification, processed in 2024
C6_Witness ==
    /\ pc = "rules"
    /\ line = "I0512 10:30:01.123456 123 file.go:10] hello"
    /\ match # NoMatch
    /\ year = 2024
    /\ Get(log, "level") = "INFO"
    /\ Get(log, "ts") = "2024-05-12T10:30:01Z"
    /\ Message(log) = "hello"

(***************************************************************************)
(* C7.  When the detector matches, the new message is the old one without  *)
(* its longest leading run of characters that occur in the matched prefix: *)
(* it never starts with a character of the prefix, it is hello for the     *)
(* example line, and the rule list is matched against it.                  *)
(***************************************************************************)
IsSuffix(t, s) == Len(t) <= Len(s) /\ SubSeq(s, Len(s) - Len(t) + 1, Len(s)) = t

MessageTrimmed(applies) ==
    /\ (pc = "glog" /\ match' # NoMatch /\ applies) =>
          LET old == Message(log)
              new == Message(log')
              cut == Chars(match'[1])
          IN  /\ match'[1] = SubSeq(old, 1, Len(match'[1]))
              /\ IsSuffix(new, old)
              /\ Chars(SubSeq(old, 1, Len(old) - Len(new))) \subseteq cut
              /\ new = "" \/ Ch(new, 1) \notin cut
              /\ old = "I0512 10:30:01.123456 123 file.go:10] hello"
                    => new = "hello"
    /\ (pc = "rules" /\ match # NoMatch /\ applies) =>
          LET i == FirstMatch(Message(log)) IN
          /\ pc' = "returned" <=> (i # 0 /\ config.Patterns[i].Discard)
          /\ log' # log => (i # 0 /\ log'.values = RuleEffect(i, log))

\* C7 as stated: the message is trimmed by character set, for every
\* configuration
C7_TrimmedAlways == [][MessageTrimmed(TRUE)]_vars

\* C7 for configurations whose level key and timestamp key are not the
\* message key: the message is trimmed by character set and the rules are
\* matched against the trimmed value
C7_TrimmedCharacterSet ==
    [][MessageTrimmed(/\ config.LevelKey # config.MessageKey
                      /\ config.TimestampKey # config.MessageKey)]_vars

\* more than the prefix is removed from "... file.go:10] file not found"
C7_Witness ==
    /\ pc = "rules"
    /\ line = "I0512 10:30:01.123456 123 file.go:10] file not found"
    /\ match # NoMatch
    /\ match[1] = "I0512 10:30:01.123456 123 file.go:10] "
    /\ config.LevelKey = "level"
    /\ Message(log) = "not found"

(***************************************************************************)
(* C8.  The preprocessing step leaves the value under the message key      *)
(* equal to the raw input line.                                            *)
(***************************************************************************)
\* C8 as stated: after preprocessing the message is the raw line, for every
\* preprocessing pattern
C8_MessageUntouched == pc = "glog" => Message(log) = line

\* C8 as it holds: the message is the raw line unless the pattern
\* matched and has a group named like the message key, whose text (the
\* last such group's, "" if it took no part) then replaces the message
C8_MessageUnlessCaptured ==
    pc = "glog" =>
        Message(log) =
            IF /\ config.preprocessSet
               /\ FindStringSubmatch(config.preprocessParsed, line) # NoMatch
               /\ GroupsNamed(config.preprocessParsed, config.MessageKey) # {}
            THEN Captured(config.preprocessParsed, line, config.MessageKey)
            ELSE line

\* the pattern ^\[(?P<pod>[a-z]+)\] (?P<message>.*) has replaced the message
C8_Witness ==
    /\ pc = "glog"
    /\ config.preprocessParsed = rePod
    /\ line = "[web] error code"
    /\ Message(log) = "error code"
    /\ Get(log, "pod") = "web"

(***************************************************************************)
(* C9.  A named group that took no part in a successful match leaves the   *)
(* record unchanged: no field is added for it and no value, such as the    *)
(* default level INFO, is overwritten.  Stated for the preprocessing step, *)
(* where the record before the match is the seeded one.                    *)
(***************************************************************************)
C9_AbsentGroupsLeaveRecord ==
    (/\ pc = "glog"
     /\ config.preprocessSet
     /\ FindStringSubmatch(config.preprocessParsed, line) # NoMatch) =>
        \A n \in GroupNameSet(config.preprocessParsed) :
            (\A i \in GroupsNamed(config.preprocessParsed, n) :
                FindStringSubmatchIndex(config.preprocessParsed, line)[i] = NoGroup)
            => /\ (n = config.LevelKey /\ n # config.MessageKey)
                     => Get(log, n) = "INFO"
               /\ n \notin {config.LevelKey, config.TimestampKey, config.MessageKey}
                     => ~Has(log.values, n)

(***************************************************************************)
(* C10.  Every key of the value store was inserted through Set, so it is   *)
(* one of the ordered keys that ToJson writes: the direct writes to        *)
(* log.values only overwrite keys that exist.                              *)
(***************************************************************************)
C10_ValuesAreOrderedKeys ==
    \A k \in DOMAIN log.values : Contains(log.keys, k)

====
